---------------------------- MODULE Spec2Model ----------------------------
(***************************************************************************)
(* LunchWeb (src/main.go): an HTTP handler that fetches a published        *)
(* spreadsheet as CSV, finds the row for today's date and renders an       *)
(* overview of the lunch orders.                                           *)
(*                                                                         *)
(* A Go string is modelled as a sequence of one-character strings, so that *)
(* trimming, formatting, byte-wise comparison, date parsing and CSV        *)
(* parsing are computed as the code computes them.                         *)
(***************************************************************************)
EXTENDS Integers, Sequences, FiniteSets, TLC

VARIABLES
    flagHeader,   \* *flagHeader: index of the header row (main.go:24)
    today,        \* the (year, month, day) that now().Date() yields (main.go:143-149)
    upstream,     \* what the spreadsheet server answers to http.Get
    pc,           \* position of the running request handler / caller
    rows,         \* rows returned by CSVFromGoogleSheetsURL (main.go:92)
    found,        \* result of findRowForToday (main.go:98)
    o,            \* the OrderOverview {Names, Orders} (main.go:103)
    ret,          \* result of the last OrderOverview method called directly
    logbuf,       \* lines written to the process log while serving the request
    resp,         \* the HTTP response written so far: status, body, count
    stages        \* the handler stages entered by the request, in order

vars == <<flagHeader, today, upstream, pc, rows, found, o, ret, logbuf, resp, stages>>

---------------------------------------------------------------------------
(* Bounds of the model *)

\* longest Names/Orders sequence given to NewOrderOverview directly
MaxNames == 3
\* most rows given to findRowForToday directly
MaxRows == 4
\* largest value of the -header flag
MaxHeader == 1

---------------------------------------------------------------------------
(* Strings *)

\* byte values of the characters the model's strings are made of
Bytes ==
    {<<"\t", 9>>, <<"\n", 10>>, <<"\r", 13>>, <<" ", 32>>, <<"\"", 34>>,
     <<",", 44>>, <<"-", 45>>, <<"0", 48>>, <<"1", 49>>, <<"2", 50>>,
     <<"3", 51>>, <<"4", 52>>, <<"5", 53>>, <<"6", 54>>, <<"7", 55>>,
     <<"8", 56>>, <<"9", 57>>, <<":", 58>>, <<"A", 65>>, <<"B", 66>>,
     <<"C", 67>>, <<"L", 76>>, <<"N", 78>>, <<"S", 83>>, <<"T", 84>>,
     <<"a", 97>>, <<"b", 98>>, <<"c", 99>>, <<"d", 100>>, <<"e", 101>>,
     <<"i", 105>>, <<"l", 108>>, <<"o", 111>>, <<"p", 112>>, <<"r", 114>>,
     <<"t", 116>>, <<"u", 117>>, <<"x", 120>>, <<"y", 121>>}

ByteOf == [c \in {p[1] : p \in Bytes} |-> (CHOOSE p \in Bytes : p[1] = c)[2]]

Ord(c) == ByteOf[c]

\* Go's s < t on strings: byte-wise lexicographic, a proper prefix is smaller
RECURSIVE StrLess(_, _)
StrLess(s, t) ==
    IF t = <<>> THEN FALSE
    ELSE IF s = <<>> THEN TRUE
    ELSE IF Head(s) = Head(t) THEN StrLess(Tail(s), Tail(t))
    ELSE Ord(Head(s)) < Ord(Head(t))

\* unicode.IsSpace on the characters of the model
IsSpace(c) == c \in {" ", "\t", "\n", "\r"}

RECURSIVE TrimLeft(_)
TrimLeft(s) == IF s # <<>> /\ IsSpace(Head(s)) THEN TrimLeft(Tail(s)) ELSE s

RECURSIVE TrimRight(_)
TrimRight(s) ==
    IF s # <<>> /\ IsSpace(s[Len(s)]) THEN TrimRight(SubSeq(s, 1, Len(s) - 1)) ELSE s

\* strings.TrimSpace
TrimSpace(s) == TrimRight(TrimLeft(s))

---------------------------------------------------------------------------
(* OrderOverview *)

NewOrderOverview(names, orders) == [Names |-> names, Orders |-> orders]

LessWrong(a, i, j) == StrLess(a[j].Name, a[i].Name)

\* ByName.Less
Less(a, i, j) == StrLess(a[i].Name, a[j].Name)

\* ByName.Swap
Swap(a, i, j) == [a EXCEPT ![i] = a[j], ![j] = a[i]]

\* sort.Sort on a slice of at most 12 elements is an insertion sort:
\*   for i := a + 1; i < b; i++ {
\*       for j := i; j > a && data.Less(j, j-1); j-- { data.Swap(j, j-1) } }
\* (indices are 1-based here)
RECURSIVE SortInner(_, _)
SortInner(a, j) ==
    IF j > 1 /\ Less(a, j, j - 1) THEN SortInner(Swap(a, j, j - 1), j - 1) ELSE a

RECURSIVE SortOuter(_, _)
SortOuter(a, i) == IF i > Len(a) THEN a ELSE SortOuter(SortInner(a, i), i + 1)

SortByName(a) == SortOuter(a, 2)

\* the loop of LineItems: o.Orders[i] is read for every index of o.Names and
\* panics when Orders is the shorter slice
RECURSIVE LineItemsLoop(_, _, _)
LineItemsLoop(oo, i, lines) ==
    IF i > Len(oo.Names) THEN [panic |-> FALSE, lines |-> lines]
    ELSE IF i > Len(oo.Orders) THEN [panic |-> TRUE, lines |-> <<>>]
    ELSE LET name  == oo.Names[i]
             order == TrimSpace(oo.Orders[i])
         IN  IF name # <<>> /\ order # <<>>
             THEN LineItemsLoop(oo, i + 1, Append(lines, [Name |-> name, Order |-> order]))
             ELSE LineItemsLoop(oo, i + 1, lines)

LineItems(oo) ==
    LET r == LineItemsLoop(oo, 1, <<>>)
    IN  IF r.panic THEN r ELSE [panic |-> FALSE, lines |-> SortByName(r.lines)]

MaxCount(oo) == Len(oo.Names)

\* 100 * float32(n) / float32(m): IEEE division, so 0/0 is NaN and n/0 is +Inf;
\* a finite quotient is kept as the exact fraction num/den that float32 rounds
FloatDiv(n, m) ==
    IF m # 0 THEN [kind |-> "num", num |-> n, den |-> m]
    ELSE IF n = 0 THEN [kind |-> "NaN", num |-> 0, den |-> 0]
    ELSE [kind |-> "Inf", num |-> n, den |-> 0]

OrderPercent(oo) ==
    LET li == LineItems(oo)
    IN  IF li.panic THEN [panic |-> TRUE, val |-> FloatDiv(0, 1)]
        ELSE [panic |-> FALSE, val |-> FloatDiv(100 * Len(li.lines), MaxCount(oo))]

FormatLineNoNewline(li) == li.Name \o <<":", " ">> \o li.Order

\* fmt.Sprintf("%v: %v\n", li.Name, li.Order)
FormatLine(li) == li.Name \o <<":", " ">> \o li.Order \o <<"\n">>

RECURSIVE WriteLines(_, _)
WriteLines(lines, buffer) ==
    IF lines = <<>> THEN buffer
    ELSE WriteLines(Tail(lines), buffer \o FormatLine(Head(lines)))

Summary(oo) ==
    LET li == LineItems(oo)
    IN  IF li.panic THEN [panic |-> TRUE, val |-> <<>>]
        ELSE [panic |-> FALSE, val |-> WriteLines(li.lines, <<>>)]

---------------------------------------------------------------------------
(* Dates: time.ParseInLocation(timeLayout, cell, timeLocation) *)

IsDigit(c) == c \in {"0", "1", "2", "3", "4", "5", "6", "7", "8", "9"}

DigitVal(c) == Ord(c) - 48

IsLeap(year) == year % 4 = 0 /\ (year % 100 # 0 \/ year % 400 = 0)

DaysIn(month, year) ==
    IF month = 2 THEN (IF IsLeap(year) THEN 29 ELSE 28)
    ELSE IF month \in {4, 6, 9, 11} THEN 30 ELSE 31

NoDate == [ok |-> FALSE, year |-> 0, month |-> 0, day |-> 0]

\* timeLayout = "2006-01-02": four year digits, "-", two month digits, "-",
\* two day digits and nothing after; month and day must be in range
ParseDate(s) ==
    IF Len(s) < 4 \/ \E k \in 1..4 : ~IsDigit(s[k]) THEN NoDate
    ELSE IF Len(s) < 5 \/ s[5] # "-" THEN NoDate
    ELSE IF Len(s) < 7 \/ ~IsDigit(s[6]) \/ ~IsDigit(s[7]) THEN NoDate
    ELSE IF Len(s) < 8 \/ s[8] # "-" THEN NoDate
    ELSE IF Len(s) < 10 \/ ~IsDigit(s[9]) \/ ~IsDigit(s[10]) THEN NoDate
    ELSE IF Len(s) > 10 THEN NoDate
    ELSE LET year  == 1000 * DigitVal(s[1]) + 100 * DigitVal(s[2])
                      + 10 * DigitVal(s[3]) + DigitVal(s[4])
             month == 10 * DigitVal(s[6]) + DigitVal(s[7])
             day   == 10 * DigitVal(s[9]) + DigitVal(s[10])
         IN  IF month < 1 \/ month > 12 THEN NoDate
             ELSE IF day < 1 \/ day > DaysIn(month, year) THEN NoDate
             ELSE [ok |-> TRUE, year |-> year, month |-> month, day |-> day]

---------------------------------------------------------------------------
(* findRowForToday *)

SameDayIgnoringYear(date, td) == date.month = td.month /\ date.day = td.day

\* date.Year() == year && date.Month() == month && date.Day() == day
SameDay(date, td) ==
    date.year = td.year /\ date.month = td.month /\ date.day = td.day

\* the range loop over rows[(*flagHeader + 1):]; i is the Go index of the row
\* looked at, scanned the number of rows whose first cell was parsed so far
RECURSIVE ScanRows(_, _, _, _, _)
ScanRows(rws, i, td, scanned, lg) ==
    IF i >= Len(rws)
    THEN [kind |-> "error", idx |-> -1, row |-> <<>>, scanned |-> scanned, log |-> lg,
          err |-> [msg |-> "no row found for today", date |-> td]]
    ELSE LET row == rws[i + 1]
         IN  IF row = <<>>
             THEN [kind |-> "panic", idx |-> -1, row |-> <<>>, scanned |-> scanned,
                   log |-> lg, err |-> [msg |-> "index out of range", date |-> td]]
             ELSE LET date == ParseDate(row[1])
                  IN  IF ~date.ok
                      THEN ScanRows(rws, i + 1, td, scanned + 1,
                                    Append(lg, [kind |-> "parse error", text |-> row[1]]))
                      ELSE IF SameDay(date, td)
                      THEN [kind |-> "row", idx |-> i, row |-> row,
                            scanned |-> scanned + 1, log |-> lg,
                            err |-> [msg |-> "", date |-> td]]
                      ELSE ScanRows(rws, i + 1, td, scanned + 1, lg)

findRowForTodaySkippingFirst(rws, h, td) ==
    IF h + 1 < 0 \/ h + 1 > Len(rws)
    THEN [kind |-> "panic", idx |-> -1, row |-> <<>>, scanned |-> 0, log |-> <<>>,
          err |-> [msg |-> "slice bounds out of range", date |-> td]]
    ELSE ScanRows(rws, h + 2, td, 0, <<>>)

\* the slice expression rows[(*flagHeader + 1):], which panics when the header
\* index is not below len(rows) + 1, and the loop over the slice
findRowForToday(rws, h, td) ==
    IF h + 1 < 0 \/ h + 1 > Len(rws)
    THEN [kind |-> "panic", idx |-> -1, row |-> <<>>, scanned |-> 0, log |-> <<>>,
          err |-> [msg |-> "slice bounds out of range", date |-> td]]
    ELSE ScanRows(rws, h + 1, td, 0, <<>>)

---------------------------------------------------------------------------
(* CSVFromGoogleSheetsURL *)

\* end of a record in csv.Reader.readRecord: FieldsPerRecord is 0, so the first
\* record fixes the number of fields and a later record with another number
\* is ErrFieldCount
EndRecord(p, rec) ==
    IF p.nf # 0 /\ Len(rec) # p.nf
    THEN [p EXCEPT !.err = "wrong number of fields"]
    ELSE [p EXCEPT !.recs = Append(@, rec), !.rec = <<>>, !.field = <<>>,
                   !.nf = Len(rec), !.st = "line"]

\* one character of the body. st is where the reader is: "line" at the start
\* of a line, "field" at the start of a field after a comma, "bare" in an
\* unquoted field, "quoted" in a quoted field, "quote" after a quote met in a
\* quoted field.
CsvStep(p, c) ==
    CASE p.st = "line" /\ c = "\n" -> p
      [] p.st \in {"line", "field"} /\ c = "\"" -> [p EXCEPT !.st = "quoted"]
      [] p.st \in {"line", "field"} /\ c = "," ->
            [p EXCEPT !.rec = Append(@, <<>>), !.st = "field"]
      [] p.st = "field" /\ c = "\n" -> EndRecord(p, Append(p.rec, <<>>))
      [] p.st \in {"line", "field"} /\ c \notin {"\n", "\"", ","} ->
            [p EXCEPT !.field = <<c>>, !.st = "bare"]
      [] p.st = "bare" /\ c = "," ->
            [p EXCEPT !.rec = Append(@, p.field), !.field = <<>>, !.st = "field"]
      [] p.st = "bare" /\ c = "\n" -> EndRecord(p, Append(p.rec, p.field))
      [] p.st = "bare" /\ c = "\"" -> [p EXCEPT !.err = "bare quote in non-quoted field"]
      [] p.st = "bare" /\ c \notin {"\n", "\"", ","} ->
            [p EXCEPT !.field = Append(@, c)]
      [] p.st = "quoted" /\ c = "\"" -> [p EXCEPT !.st = "quote"]
      [] p.st = "quoted" /\ c # "\"" -> [p EXCEPT !.field = Append(@, c)]
      [] p.st = "quote" /\ c = "\"" -> [p EXCEPT !.field = Append(@, c), !.st = "quoted"]
      [] p.st = "quote" /\ c = "," ->
            [p EXCEPT !.rec = Append(@, p.field), !.field = <<>>, !.st = "field"]
      [] p.st = "quote" /\ c = "\n" -> EndRecord(p, Append(p.rec, p.field))
      [] p.st = "quote" /\ c \notin {"\n", "\"", ","} ->
            [p EXCEPT !.err = "extraneous or missing quote in quoted field"]

\* the end of the body: a last line without a newline still ends a record, an
\* open quoted field is an error
CsvEnd(p) ==
    IF p.st = "line" THEN p
    ELSE IF p.st = "quoted"
    THEN [p EXCEPT !.err = "extraneous or missing quote in quoted field"]
    ELSE IF p.st = "field" THEN EndRecord(p, Append(p.rec, <<>>))
    ELSE EndRecord(p, Append(p.rec, p.field))

RECURSIVE CsvRun(_, _, _)
CsvRun(body, i, p) ==
    IF p.err # "" THEN p
    ELSE IF i > Len(body) THEN CsvEnd(p)
    ELSE CsvRun(body, i + 1, CsvStep(p, body[i]))

\* csv.NewReader(bytes.NewReader(body)).ReadAll(): the records, or nil and the
\* first error
ReadAll(body) ==
    LET p == CsvRun(body, 1,
                    [st |-> "line", field |-> <<>>, rec |-> <<>>, recs |-> <<>>,
                     nf |-> 0, err |-> ""])
    IN  IF p.err # "" THEN [err |-> p.err, rows |-> <<>>]
        ELSE [err |-> "", rows |-> p.recs]

\* http.Get fails, or reading the body fails, or the body is parsed; the
\* status code of the answer is not looked at
CSVFromGoogleSheetsURL(up) ==
    IF up.io = "get" THEN [err |-> "Get: connection refused", rows |-> <<>>]
    ELSE IF up.io = "read" THEN [err |-> "unexpected EOF", rows |-> <<>>]
    ELSE ReadAll(up.body)

---------------------------------------------------------------------------
(* Values the inputs are drawn from *)

Alice == <<"A", "l", "i", "c", "e">>
Bob   == <<"B", "o", "b">>
Carol == <<"C", "a", "r", "o", "l">>
BLT   == <<"B", "L", "T">>
Soup  == <<"S", "o", "u", "p">>
Blank == <<" ">>
Padded == <<" ", "x", "\t">>

NamePool == {<<>>, Blank, Alice, Bob, Carol}
OrderPool == {<<>>, Blank, BLT, Soup, Padded}

Jan01 == <<"2", "0", "2", "1", "-", "0", "1", "-", "0", "1">>
Jan02 == <<"2", "0", "2", "1", "-", "0", "1", "-", "0", "2">>
Jan02LastYear == <<"2", "0", "2", "0", "-", "0", "1", "-", "0", "2">>
Feb30 == <<"2", "0", "2", "1", "-", "0", "2", "-", "3", "0">>
Unpadded == <<"2", "0", "2", "1", "-", "1", "-", "2">>
BadDate == <<"b", "a", "d", "-", "d", "a", "t", "e">>

DatePool == {Jan01, Jan02, Jan02LastYear, Feb30, Unpadded, BadDate}

Days == {[year |-> 2021, month |-> 1, day |-> 1], [year |-> 2021, month |-> 1, day |-> 2]}

HeaderFlags == -1..MaxHeader

NL == <<"\n">>
Comma == <<",">>
Quote == <<"\"">>

\* bodies the spreadsheet server may answer with
BodyEmpty == <<>>
\* d,Al,Bo / 2021-01-02,BLT,<blank>
BodyOrders ==
    <<"d">> \o Comma \o <<"A", "l">> \o Comma \o <<"B", "o">> \o NL
    \o Jan02 \o Comma \o BLT \o Comma \o Blank \o NL
\* a sheet with the date column only
BodyNoNames == <<"d">> \o NL \o Jan02 \o NL
\* a malformed date row before the row of 2021-01-01, no final newline
BodyBadRow ==
    <<"d">> \o Comma \o <<"A", "l">> \o NL \o BadDate \o Comma \o <<"x">> \o NL
    \o Jan01 \o Comma \o <<"y">>
\* the data row is shorter than the header row
BodyShortRow == <<"d">> \o Comma \o <<"A", "l">> \o NL \o Jan02 \o NL
\* a quote inside an unquoted field
BodyBareQuote == <<"a">> \o Quote \o <<"b">> \o NL
\* the text of an error page
BodyNotFound == <<"N", "o", "t", " ", "a", "b", "l", "e">> \o NL
\* quoted fields: a comma in a name, a doubled quote in an order; a blank
\* line; a whitespace-only name
BodyQuoted ==
    <<"d">> \o Comma \o Quote \o <<"A", ",", "l">> \o Quote \o Comma \o Blank \o NL \o NL
    \o Jan02 \o Comma \o Quote \o <<"x">> \o Quote \o Quote \o <<"y">> \o Quote
    \o Comma \o BLT \o NL
\* a quoted field that is never closed
BodyOpenQuote == <<"d">> \o Comma \o Quote \o <<"A", "l">> \o NL
\* text after the closing quote
BodyQuoteText == Quote \o <<"d">> \o Quote \o <<"x">> \o NL
\* empty fields
BodyEmptyFields == Comma \o NL \o Jan02 \o Comma

Bodies ==
    {BodyEmpty, BodyOrders, BodyNoNames, BodyBadRow, BodyShortRow, BodyBareQuote,
     BodyNotFound, BodyQuoted, BodyOpenQuote, BodyQuoteText, BodyEmptyFields}

\* the status t.Execute's first write commits, and http.StatusInternalServerError
StatusOK == 200
StatusInternalServerError == 500

\* statuses the spreadsheet server may answer with
UpstreamStatuses == {200, 404}

\* the answers to http.Get: the connection fails, or an answer with a status
\* arrives and its body is read whole or the read fails
Upstreams ==
    {[io |-> "get", status |-> 0, body |-> <<>>]}
    \cup {[io |-> "read", status |-> st, body |-> <<>>] : st \in UpstreamStatuses}
    \cup {[io |-> "ok", status |-> st, body |-> b] : st \in UpstreamStatuses, b \in Bodies}

---------------------------------------------------------------------------
(* State shared by the specifications *)

NoUpstream == [io |-> "none", status |-> 0, body |-> <<>>]
NoFound == [kind |-> "none", idx |-> -1, row |-> <<>>, scanned |-> 0, log |-> <<>>,
            err |-> [msg |-> "", date |-> [year |-> 0, month |-> 0, day |-> 0]]]
NoOverview == NewOrderOverview(<<>>, <<>>)
NoRet == [op |-> "none", panic |-> FALSE, val |-> <<>>]
NoResp == [status |-> 0, body |-> <<>>, count |-> 0]

---------------------------------------------------------------------------
(* The request handler, main.go:91-119 *)

\* http.Error(w, msg, 500): sets the status unless one was already committed
\* by an earlier write (the server then logs the superfluous WriteHeader call),
\* and writes msg to the body
HttpError(r, tag, text) ==
    IF r.count = 0
    THEN [status |-> StatusInternalServerError, count |-> 1,
          body |-> <<[tag |-> tag, text |-> text]>>]
    ELSE [r EXCEPT !.body = Append(@, [tag |-> tag, text |-> text])]

\* what the template prints of the overview
Page(oo) ==
    [summary |-> Summary(oo).val, items |-> LineItems(oo).lines,
     count |-> Len(LineItems(oo).lines), max |-> MaxCount(oo),
     percent |-> OrderPercent(oo).val]

\* a panic leaves the handler: net/http recovers it, logs it and closes the
\* connection; nothing more is written to the response
Panicked(lg) == Append(lg, [kind |-> "panic", text |-> <<>>])

Init ==
    /\ flagHeader \in 0..MaxHeader
    /\ today \in Days
    /\ upstream = NoUpstream
    /\ pc = "fetch"
    /\ rows = <<>>
    /\ found = NoFound
    /\ o = NoOverview
    /\ ret = NoRet
    /\ logbuf = <<>>
    /\ resp = NoResp
    /\ stages = <<>>

\* main.go:92-96
Fetch ==
    /\ pc = "fetch"
    /\ \E up \in Upstreams :
         LET r == CSVFromGoogleSheetsURL(up)
         IN  /\ upstream' = up
             /\ stages' = Append(stages, "Fetch")
             /\ IF r.err # ""
                THEN /\ resp' = HttpError(resp, "error from csv: ", r.err)
                     /\ pc' = "done"
                     /\ rows' = <<>>
                ELSE /\ rows' = r.rows
                     /\ pc' = "header"
                     /\ resp' = resp
    /\ UNCHANGED <<flagHeader, today, found, o, ret, logbuf>>

\* main.go:97: header := rows[headerIndex]
IndexHeader ==
    /\ pc = "header"
    /\ IF flagHeader < 0 \/ flagHeader >= Len(rows)
       THEN pc' = "panicked" /\ logbuf' = Panicked(logbuf)
       ELSE pc' = "match" /\ logbuf' = logbuf
    /\ UNCHANGED <<flagHeader, today, upstream, rows, found, o, ret, resp, stages>>

\* main.go:98-102
Match ==
    /\ pc = "match"
    /\ LET f == findRowForToday(rows, flagHeader, today)
       IN  /\ found' = f
           /\ stages' = Append(stages, "Match")
           /\ IF f.kind = "panic"
              THEN pc' = "panicked" /\ logbuf' = Panicked(logbuf \o f.log) /\ resp' = resp
              ELSE IF f.kind = "error"
              THEN /\ resp' = HttpError(resp, "error for today's row: ", f.err)
                   /\ logbuf' = logbuf \o f.log
                   /\ pc' = "done"
              ELSE pc' = "build" /\ logbuf' = logbuf \o f.log /\ resp' = resp
    /\ UNCHANGED <<flagHeader, today, upstream, rows, o, ret>>

\* main.go:103-105: header[1:] and row[1:], the overview, its summary logged
BuildOverview ==
    /\ pc = "build"
    /\ stages' = Append(stages, "BuildOverview")
    /\ LET header == rows[flagHeader + 1]
           row    == found.row
       IN  IF header = <<>> \/ row = <<>>
           THEN pc' = "panicked" /\ logbuf' = Panicked(logbuf) /\ o' = o
           ELSE LET oo == NewOrderOverview(Tail(header), Tail(row))
                    summary == Summary(oo)
                IN  /\ o' = oo
                    /\ IF summary.panic
                       THEN pc' = "panicked" /\ logbuf' = Panicked(logbuf)
                       ELSE /\ pc' = "render"
                            /\ logbuf' = Append(logbuf, [kind |-> "summary", text |-> summary.val])
    /\ UNCHANGED <<flagHeader, today, upstream, rows, found, ret, resp>>

\* main.go:107-118: t.Execute(w, data) writes the page; when it fails, before
\* or after part of the page went out, http.Error follows
Render ==
    /\ pc = "render"
    /\ stages' = Append(stages, "Render")
    /\ \E outcome \in {"ok", "failed", "failed after writing"} :
         LET written == [status |-> StatusOK, count |-> 1,
                         body |-> <<[tag |-> IF outcome = "ok" THEN "page" ELSE "partial page",
                                     text |-> Page(o)]>>]
         IN  /\ resp' = IF outcome = "ok" THEN written
                        ELSE IF outcome = "failed"
                        THEN HttpError(resp, "error in template: ", outcome)
                        ELSE HttpError(written, "error in template: ", outcome)
             /\ logbuf' = IF outcome = "failed after writing"
                          THEN Append(logbuf, [kind |-> "superfluous WriteHeader", text |-> <<>>])
                          ELSE logbuf
    /\ pc' = "done"
    /\ UNCHANGED <<flagHeader, today, upstream, rows, found, o, ret>>

\* the handler has returned (or panicked): the server takes the next request
NextRequest ==
    /\ pc \in {"done", "panicked"}
    /\ pc' = "fetch"
    /\ upstream' = NoUpstream
    /\ rows' = <<>>
    /\ found' = NoFound
    /\ o' = NoOverview
    /\ logbuf' = <<>>
    /\ resp' = NoResp
    /\ stages' = <<>>
    /\ UNCHANGED <<flagHeader, today, ret>>

Next == Fetch \/ IndexHeader \/ Match \/ BuildOverview \/ Render \/ NextRequest

Spec == Init /\ [][Next]_vars

---------------------------------------------------------------------------
(* findRowForToday called on its own *)

InitMatch ==
    /\ flagHeader \in HeaderFlags
    /\ today \in Days
    /\ \E k \in 0..MaxRows : rows \in [1..k -> {<<d>> : d \in DatePool}]
    /\ pc = "match"
    /\ found = NoFound
    /\ upstream = NoUpstream
    /\ o = NoOverview
    /\ ret = NoRet
    /\ logbuf = <<>>
    /\ resp = NoResp
    /\ stages = <<>>

CallFindRowForToday ==
    /\ pc = "match"
    /\ found' = findRowForToday(rows, flagHeader, today)
    /\ logbuf' = logbuf \o found'.log
    /\ pc' = "matched"
    /\ UNCHANGED <<flagHeader, today, upstream, rows, o, ret, resp, stages>>

NextMatch == CallFindRowForToday

SpecMatch == InitMatch /\ [][NextMatch]_vars

---------------------------------------------------------------------------
(* The OrderOverview methods called on their own *)

InitOverview ==
    /\ \E k \in 0..MaxNames :
         o \in [Names : [1..k -> NamePool], Orders : [1..k -> OrderPool]]
    /\ ret = NoRet
    /\ pc = "overview"
    /\ flagHeader = 0
    /\ today \in {d \in Days : d.day = 1}
    /\ upstream = NoUpstream
    /\ rows = <<>>
    /\ found = NoFound
    /\ logbuf = <<>>
    /\ resp = NoResp
    /\ stages = <<>>

CallLineItems ==
    /\ pc = "overview"
    /\ LET r == LineItems(o)
       IN  ret' = [op |-> "LineItems", panic |-> r.panic, val |-> r.lines]
    /\ pc' = "returned"
    /\ UNCHANGED <<flagHeader, today, upstream, rows, found, o, logbuf, resp, stages>>

CallMaxCount ==
    /\ pc = "overview"
    /\ ret' = [op |-> "MaxCount", panic |-> FALSE, val |-> MaxCount(o)]
    /\ pc' = "returned"
    /\ UNCHANGED <<flagHeader, today, upstream, rows, found, o, logbuf, resp, stages>>

CallOrderPercent ==
    /\ pc = "overview"
    /\ LET r == OrderPercent(o)
       IN  ret' = [op |-> "OrderPercent", panic |-> r.panic, val |-> r.val]
    /\ pc' = "returned"
    /\ UNCHANGED <<flagHeader, today, upstream, rows, found, o, logbuf, resp, stages>>

CallSummary ==
    /\ pc = "overview"
    /\ LET r == Summary(o)
       IN  ret' = [op |-> "Summary", panic |-> r.panic, val |-> r.val]
    /\ pc' = "returned"
    /\ UNCHANGED <<flagHeader, today, upstream, rows, found, o, logbuf, resp, stages>>

NextOverview == CallLineItems \/ CallMaxCount \/ CallOrderPercent \/ CallSummary

SpecOverview == InitOverview /\ [][NextOverview]_vars

---------------------------------------------------------------------------
(* Properties *)

Count(seq, x) == Cardinality({k \in 1..Len(seq) : seq[k] = x})

IsPermutation(a, b) ==
    /\ Len(a) = Len(b)
    /\ \A k \in 1..Len(a) : Count(a, a[k]) = Count(b, a[k])

\* the (name, trimmed order) pairs, in index order, of the indices whose order
\* is non-empty after trimming and whose name is non-empty, after trimming
\* when trimName, as written otherwise
RECURSIVE PairsWhere(_, _, _)
PairsWhere(oo, i, trimName) ==
    IF i > Len(oo.Names) THEN <<>>
    ELSE LET name == IF trimName THEN TrimSpace(oo.Names[i]) ELSE oo.Names[i]
             rest == PairsWhere(oo, i + 1, trimName)
         IN  IF name # <<>> /\ TrimSpace(oo.Orders[i]) # <<>>
             THEN <<[Name |-> oo.Names[i], Order |-> TrimSpace(oo.Orders[i])]>> \o rest
             ELSE rest

\* C1: LineItems() holds exactly one item for each index whose name and order
\* are both non-empty after trimming whitespace, and no item for another index.
C1_ItemsWhereBothTrimmedNonEmpty ==
    ret.op = "LineItems" =>
        /\ ~ret.panic
        /\ IsPermutation(ret.val, PairsWhere(o, 1, TRUE))

\* C2: OrderPercent() is 100 * len(LineItems()) / MaxCount() when MaxCount() > 0
\* and is 0, not NaN, when MaxCount() is 0.
C2_OrderPercentGuarded ==
    ret.op = "OrderPercent" =>
        /\ ~ret.panic
        /\ ret.val.kind = "num"
        /\ MaxCount(o) > 0 =>
               ret.val.num * MaxCount(o) = 100 * Len(LineItems(o).lines) * ret.val.den
        /\ MaxCount(o) = 0 => ret.val.num = 0

\* C3: once the upstream fetch has been answered with a non-2xx status,
\* whatever the body of the answer, the fetcher has failed and the request
\* has ended with a 500 response whose body starts with "error from csv";
\* such a request never ends with a 200.
C3_Non2xxAnswerIs500 ==
    (pc # "fetch" /\ upstream.io # "get" /\ upstream.status \notin 200..299) =>
        /\ pc = "done"
        /\ resp.count = 1
        /\ resp.status = StatusInternalServerError
        /\ resp.body[1].tag = "error from csv: "

\* a first cell that parses as YYYY-MM-DD and is today's year, month and day
IsTodayCell(cell) ==
    LET d == ParseDate(cell)
    IN  d.ok /\ d.year = today.year /\ d.month = today.month /\ d.day = today.day

\* Go indices of the rows after the header row whose first cell is today
RowsOfToday == {j \in (flagHeader + 1)..(Len(rows) - 1) : IsTodayCell(rows[j + 1][1])}

MinOf(S) == CHOOSE x \in S : \A y \in S : x <= y

ExampleRows == <<<<Jan01>>, <<Jan02>>, <<BadDate>>, <<Jan02>>>>

\* C4: findRowForToday looks at the rows after the header index in order and
\* returns the lowest-indexed one whose first cell parses as YYYY-MM-DD and is
\* today; rows whose first cell does not parse are skipped without ending the
\* scan or failing; for the dates 2021-01-01, 2021-01-02, bad-date, 2021-01-02
\* and today 2021-01-02 it returns the row at index 1.
C4_FirstRowOfToday ==
    (pc = "matched" /\ flagHeader + 1 <= Len(rows)) =>
        /\ RowsOfToday # {} =>
               /\ found.kind = "row"
               /\ found.idx = MinOf(RowsOfToday)
               /\ found.row = rows[found.idx + 1]
               /\ found.scanned = found.idx - flagHeader
        /\ \A k \in 1..Len(found.log) :
               /\ found.log[k].kind = "parse error"
               /\ \E j \in (flagHeader + 1)..(Len(rows) - 1) :
                      rows[j + 1][1] = found.log[k].text /\ ~ParseDate(rows[j + 1][1]).ok
        /\ (rows = ExampleRows /\ flagHeader = -1 /\ today.day = 2) =>
               found.kind = "row" /\ found.idx = 1 /\ found.row = <<Jan02>>
        /\ (rows = <<<<BadDate>>, <<Feb30>>, <<Unpadded>>, <<Jan02>>>>
              /\ flagHeader = -1 /\ today.day = 2) =>
               found.kind = "row" /\ found.idx = 3 /\ Len(found.log) = 3

C4_Witness ==
    /\ pc = "matched"
    /\ rows = ExampleRows
    /\ flagHeader = -1
    /\ today = [year |-> 2021, month |-> 1, day |-> 2]
    /\ found.kind = "row"
    /\ found.idx = 1

\* C5: findRowForToday returns the not-found error, naming today's date,
\* exactly when no row after the header index has a first cell that parses to
\* today; it does so only after every row after the header was looked at, and
\* returns no row then.
C5_NotFoundIffNoRowOfToday ==
    (pc = "matched" /\ flagHeader + 1 <= Len(rows)) =>
        /\ found.kind \in {"row", "error"}
        /\ found.kind = "error" <=> RowsOfToday = {}
        /\ found.kind = "error" =>
               /\ found.scanned = Len(rows) - (flagHeader + 1)
               /\ found.row = <<>>
               /\ found.idx = -1
               /\ found.err = [msg |-> "no row found for today", date |-> today]

C5_Witness ==
    /\ pc = "matched"
    /\ found.kind = "error"
    /\ found.scanned = 3
    /\ \E j \in 1..Len(rows) : rows[j] = <<Jan02LastYear>>
    /\ \E j \in 1..Len(rows) : rows[j] = <<BadDate>>

FetchFailed == pc # "fetch" /\ CSVFromGoogleSheetsURL(upstream).err # ""

\* C6: a request runs Fetch, Match, BuildOverview, Render in that order and
\* ends with exactly one response: 500 "error from csv: " after a failed
\* fetch, with no later stage run; 500 "error for today's row: " after a
\* failed match, with no overview or rendering; 200 with the rendered page
\* only when every stage succeeded.
C6_StagePipeline ==
    pc \in {"done", "panicked"} =>
        /\ resp.count = 1
        /\ FetchFailed =>
               /\ resp.status = StatusInternalServerError
               /\ resp.body[1].tag = "error from csv: "
               /\ stages = <<"Fetch">>
        /\ (~FetchFailed /\ found.kind = "error") =>
               /\ resp.status = StatusInternalServerError
               /\ resp.body[1].tag = "error for today's row: "
               /\ stages = <<"Fetch", "Match">>
        /\ resp.status = StatusOK =>
               /\ stages = <<"Fetch", "Match", "BuildOverview", "Render">>
               /\ Len(resp.body) = 1
               /\ resp.body[1].tag = "page"

RECURSIVE LinesOf(_)
LinesOf(items) ==
    IF items = <<>> THEN <<>>
    ELSE Head(items).Name \o <<":", " ">> \o Head(items).Order \o <<"\n">>
         \o LinesOf(Tail(items))

ExampleOverview == [Names |-> <<Alice, Bob, Carol>>, Orders |-> <<BLT, Blank, Soup>>]

ExampleSummary ==
    <<"A", "l", "i", "c", "e", ":", " ", "B", "L", "T", "\n",
      "C", "a", "r", "o", "l", ":", " ", "S", "o", "u", "p", "\n">>

\* C8: Summary() is the concatenation, in LineItems() order, of one line
\* "<name>: <order>\n" per line item and nothing else; it is
\* "Alice: BLT\nCarol: Soup\n" for the names Alice, Bob, Carol with the orders
\* BLT, " ", Soup, and empty when there is no line item.
C8_SummaryLines ==
    ret.op = "Summary" =>
        /\ ~ret.panic
        /\ ret.val = LinesOf(LineItems(o).lines)
        /\ o = ExampleOverview => ret.val = ExampleSummary
        /\ LineItems(o).lines = <<>> => ret.val = <<>>

C8_Witness == ret.op = "Summary" /\ o = ExampleOverview /\ ret.val = ExampleSummary

\* C9: the handler checks bounds before every positional access, so every
\* request ends with a 200 or a 500 response and none reaches an index out of
\* range in rows, the header row or the orders.
C9_NoIndexOutOfRange ==
    /\ pc # "panicked"
    /\ pc = "done" => resp.count = 1 /\ resp.status \in {StatusOK, StatusInternalServerError}

\* C10: every response the handler produces, 200 or 500, comes with a write
\* to the process log before the request completes.
C10_EveryResponseLogged ==
    (pc = "done" /\ resp.count > 0) => logbuf # <<>>

===========================================================================
